---- MODULE Spec2Model ----
(***************************************************************************)
(* Model of ptd_client_server/server.py: the PTDaemon supervisor (class    *)
(* Ptd), the session controller (class Server) and the log analyzer        *)
(* (max_volts_amps, read_log).                                             *)
(*                                                                         *)
(* One action models one whole handler: one iteration of the command loop  *)
(* of Server.handle_connection (receive, dispatch, reply), the preamble of *)
(* handle_connection, or the final Server.close() of the main program.     *)
(* Strings sent to the daemon are modelled as tuples of their comma        *)
(* separated fields: "SR,V,Auto" is <<"SR", "V", "Auto">>.                 *)
(***************************************************************************)
EXTENDS Integers, Sequences, FiniteSets, TLC

\* ------------------------------------------------------------------ bounds
MaxLog == 2

\* markers a client may send
Markers == {"run1", "run2"}

\* the measurements <<volts, amps>> the daemon may log under a tag: two while
\* it ranges run1, one otherwise
Samples(tag) ==
    IF tag = <<"ranging", "run1">>
    THEN {<<"3.3", "1.2">>, <<"3.5", "1.0">>}
    ELSE {<<"3.3", "1.2">>}

\* replies of the daemon to "Hello" (None: the stream ended)
HelloReplies == {"Hello, PTDaemon here!", "Hi", "None"}

\* replies of the daemon to "RR", as the list response.split(",") yields
\* (<<"">> is the empty reply)
RRReplies ==
    { <<"0", "0", "5.5", "0", "120.0">>,
      <<"0", "1", "5.5", "0", "-1.0">>,
      <<"0", "0", "5.5">>,
      <<"">> }

\* how the daemon answers one start(): it refuses the first `refused`
\* connection attempts, lib.sig.stopped is seen set from the sigAt-th refusal
\* on (0: never), and it replies hello to "Hello" and rr to "RR"
Answer(refused, sigAt, hello, rr) ==
    [refused |-> refused, sigAt |-> sigAt, hello |-> hello, rr |-> rr]

Answers ==
    {Answer(0, 0, "Hello, PTDaemon here!", rr) : rr \in RRReplies}
    \cup {Answer(99, 0, "Hello, PTDaemon here!", <<"0", "0", "5.5", "0", "120.0">>)}
    \cup {Answer(0, 0, h, <<"">>) : h \in HelloReplies \ {"Hello, PTDaemon here!"}}
    \cup {Answer(100, s, "None", <<"">>) : s \in {0, 1, 100}}

VARIABLES
    ptd,            \* Ptd: _process, _socket, _proto, _init_Amps, _init_Volts
    mode,           \* Server._mode
    mark,           \* Server._mark
    ranging_table,  \* Server._ranging_table
    last_log,       \* Server._last_log: whether the attribute is set, and the
                    \* number of lines of its text
    logExists,      \* the file config.ptd_logfile exists
    logfile,        \* its lines, each [v, a, mark]
    daemonTag,      \* the tag the daemon logs under since the last Go (<<>>: idle)
    stopped,        \* lib.sig.stopped
    pc,             \* "listen", "recv", "closing", "exited"
    op,             \* the handler the last step ran
    reply,          \* the reply it sent to the client ("none": no reply)
    sent,           \* the commands it sent to the daemon, in order
    obs,            \* what else it did: stop() calls, launches, attempts ...
    hist            \* history: whether the current daemon answered Hello well
                    \* (helloOk), the range its start() captured, the markers
                    \* ranged and whether _last_log was set in this connection,
                    \* the length of the log when the current phase began

vars == <<ptd, mode, mark, ranging_table, last_log, logExists, logfile,
          daemonTag, stopped, pc, op, reply, sent, obs, hist>>

None == "None"

\* ------------------------------------------------------------ log analyzer

\* Decimal(s) of the measurement texts the model uses, in tenths
Decimal(s) ==
    CASE s = "-1"  -> -10
      [] s = "0"   -> 0
      [] s = "1.0" -> 10
      [] s = "1.2" -> 12
      [] s = "3.3" -> 33
      [] s = "3.5" -> 35

\* max(a, Decimal(b)) of Python: the first argument wins a tie
DecMax(a, b) == IF Decimal(b) > Decimal(a) THEN b ELSE a

\* the scan taking every line, whatever its mark
RECURSIVE MaxScanAnyMark(_, _, _, _)
MaxScanAnyMark(lines, tag, maxVolts, maxAmps) ==
    IF lines = <<>> THEN <<maxVolts, maxAmps>>
    ELSE LET m == Head(lines) IN
         MaxScanAnyMark(Tail(lines), tag, DecMax(maxVolts, m.v), DecMax(maxAmps, m.a))

\* the scan of max_volts_amps over the lines of the log, from the maxima so far
RECURSIVE MaxScan(_, _, _, _)
MaxScan(lines, tag, maxVolts, maxAmps) ==
    IF lines = <<>> THEN <<maxVolts, maxAmps>>
    ELSE LET m == Head(lines) IN
         IF m.mark = tag
         THEN MaxScan(Tail(lines), tag, DecMax(maxVolts, m.v), DecMax(maxAmps, m.a))
         ELSE MaxScan(Tail(lines), tag, maxVolts, maxAmps)

\* max_volts_amps without its final check of the maxima
max_volts_ampsNoCheck(exists, lines, tag) ==
    IF ~exists THEN [raised |-> TRUE, item |-> <<>>]
    ELSE [raised |-> FALSE, item |-> MaxScan(lines, tag, "-1", "-1")]

\* max_volts_amps: [raised, item]; the file must exist
max_volts_amps(exists, lines, tag) ==
    IF ~exists THEN [raised |-> TRUE, item |-> <<>>]
    ELSE LET r == MaxScan(lines, tag, "-1", "-1") IN
         IF Decimal(r[1]) <= 0 \/ Decimal(r[2]) <= 0
         THEN [raised |-> TRUE, item |-> <<>>]
         ELSE [raised |-> FALSE, item |-> r]

\* read_log: the matching lines in file order
read_log(lines, tag) == SelectSeq(lines, LAMBDA m : m.mark = tag)

\* --------------------------------------------------------- class Ptd

\* Ptd.__init__
PtdInit ==
    [process |-> FALSE, socket |-> FALSE, proto |-> FALSE,
     init_Amps |-> None, init_Volts |-> None]

\* Ptd.cmd: what goes to the daemon (nothing without a control connection)
Ptd_cmd(p, c) == IF p.proto THEN <<c>> ELSE <<>>

\* Ptd.running
Ptd_running(p) == p.process

\* Ptd.stop returning early when it finds no control connection
Ptd_stopOnlyConnected(p) ==
    IF ~p.proto
    THEN [ptd |-> p, sent |-> <<>>, terminated |-> FALSE]
    ELSE [ptd  |-> [p EXCEPT !.proto = FALSE, !.socket = FALSE, !.process = FALSE],
          sent |-> <<<<"Stop">>, <<"SR", "V", p.init_Volts>>,
                     <<"SR", "A", p.init_Amps>>>>,
          terminated |-> p.process]

\* Ptd.stop restoring the range without looking for a control connection
Ptd_stopUnguarded(p) ==
    [ptd  |-> [p EXCEPT !.proto = FALSE, !.socket = FALSE, !.process = FALSE],
     sent |-> <<<<"Stop">>, <<"SR", "V", p.init_Volts>>, <<"SR", "A", p.init_Amps>>>>,
     terminated |-> p.process]

\* Ptd.stop: the new supervisor, the commands sent, whether a process was
\* terminated
Ptd_stop(p) ==
    [ptd  |-> [p EXCEPT !.proto = FALSE, !.socket = FALSE, !.process = FALSE],
     sent |-> IF p.proto
              THEN Ptd_cmd(p, <<"Stop">>)
                   \o Ptd_cmd(p, <<"SR", "V", p.init_Volts>>)
                   \o Ptd_cmd(p, <<"SR", "A", p.init_Amps>>)
              ELSE <<>>,
     terminated |-> p.process]

\* float(s) of the range texts the model uses, in tenths; "abc" does not parse
IsFloat(s) == s \in {"0", "1", "5.5", "120.0", "-1.0"}
Float(s) ==
    CASE s = "0"     -> 0
      [] s = "1"     -> 10
      [] s = "5.5"   -> 55
      [] s = "120.0" -> 1200
      [] s = "-1.0"  -> -10

\* get_range_from_ranges_list; param_num counts from 0 as in the source.
\* "IndexError" when the reply has too few fields (not caught by the source)
get_range_from_ranges_list(response_list, param_num) ==
    IF Len(response_list) < param_num + 1 THEN "IndexError"
    ELSE IF response_list[param_num + 1] # "0" THEN "Auto"
    ELSE IF Len(response_list) < param_num + 2 THEN "IndexError"
    ELSE IF ~IsFloat(response_list[param_num + 2]) THEN "Auto"
    ELSE IF Float(response_list[param_num + 2]) > 0 THEN response_list[param_num + 2]
    ELSE "Auto"

\* Ptd._get_initial_range on the RR reply: "ok", "exit" (exit(1)) or
\* "IndexError"
get_initial_range(p, response_list) ==
    IF response_list = <<"">>
    THEN [ptd |-> p, outcome |-> "exit"]
    ELSE LET amps == get_range_from_ranges_list(response_list, 1)
             volts == get_range_from_ranges_list(response_list, 3)
         IN  IF amps = "IndexError" THEN [ptd |-> p, outcome |-> "IndexError"]
             ELSE IF volts = "IndexError"
             THEN [ptd |-> [p EXCEPT !.init_Amps = amps], outcome |-> "IndexError"]
             ELSE [ptd |-> [p EXCEPT !.init_Amps = amps, !.init_Volts = volts],
                   outcome |-> "ok"]

retries == 100

\* connect_loopOneMore is the loop with the test `retries >= 0`: one attempt
\* more. The connect loop of Ptd.start, `while s is None and retries > 0`, run
\* with `left` retries: the daemon refuses the first `refused` attempts, and
\* lib.sig.stopped is set from the sigAt-th refusal on (0: never). Attempt k
\* is refused when k <= refused; a refused attempt exits when it sees
\* lib.sig.stopped, else it costs one retry. So the loop exits at attempt
\* sigAt if that attempt is made and refused, else it connects at attempt
\* refused + 1 if it has the retries for it, else it gives up after `left`.
connect_loopOneMore(left, refused, sigAt) ==
    IF sigAt # 0 /\ sigAt <= refused /\ sigAt <= left + 1
    THEN [s |-> FALSE, exit |-> TRUE, attempts |-> sigAt]
    ELSE IF refused + 1 <= left + 1
    THEN [s |-> TRUE, exit |-> FALSE, attempts |-> refused + 1]
    ELSE [s |-> FALSE, exit |-> FALSE, attempts |-> left + 1]

connect_loop(left, refused, sigAt) ==
    IF sigAt # 0 /\ sigAt <= refused /\ sigAt <= left
    THEN [s |-> FALSE, exit |-> TRUE, attempts |-> sigAt]
    ELSE IF refused + 1 <= left
    THEN [s |-> TRUE, exit |-> FALSE, attempts |-> refused + 1]
    ELSE [s |-> FALSE, exit |-> FALSE, attempts |-> left]

\* what a start() reports besides its result
StartObs(launched, attempts, stops, terminated, captured) ==
    [launched |-> launched, attempts |-> attempts, stops |-> stops,
     terminated |-> terminated, captured |-> captured]

\* Ptd.start from the launch of the daemon on (the supervisor holds no
\* process)
Launch(p, refused, sigAt, hello, rr) ==
    LET p1 == [p EXCEPT !.process = TRUE]
        c  == connect_loop(retries, refused, sigAt)
    IN  IF c.exit
        THEN [ptd |-> p1, ret |-> "exit", sent |-> <<>>, sig |-> TRUE,
              o |-> StartObs(TRUE, c.attempts, 0, FALSE, FALSE)]
        ELSE IF ~c.s
        THEN LET st == Ptd_stop(p1) IN
             [ptd |-> st.ptd, ret |-> "False", sent |-> st.sent, sig |-> FALSE,
              o |-> StartObs(TRUE, c.attempts, 1, st.terminated, FALSE)]
        ELSE
        LET p2 == [p1 EXCEPT !.socket = TRUE, !.proto = TRUE] IN
        IF hello # "Hello, PTDaemon here!"
        THEN [ptd |-> p2, ret |-> "False", sent |-> Ptd_cmd(p2, <<"Hello">>),
              sig |-> FALSE, o |-> StartObs(TRUE, c.attempts, 0, FALSE, FALSE)]
        ELSE
        LET g == get_initial_range(p2, rr) IN
        [ptd |-> g.ptd,
         ret |-> IF g.outcome = "ok" THEN "True" ELSE g.outcome,
         sent |-> Ptd_cmd(p2, <<"Hello">>) \o Ptd_cmd(p2, <<"Identify">>)
                  \o Ptd_cmd(p2, <<"RR">>),
         sig |-> FALSE,
         o |-> StartObs(TRUE, c.attempts, 0, FALSE, g.outcome = "ok")]

\* Ptd.start without its check for a process already held
Ptd_startAlways(p, refused, sigAt, hello, rr) ==
    Launch(p, refused, sigAt, hello, rr)

\* Ptd.start: ret is "True", "False", "exit" (SystemExit) or "IndexError";
\* sig tells that the exit came from lib.sig.stopped
Ptd_start(p, refused, sigAt, hello, rr) ==
    IF p.process
    THEN [ptd |-> p, ret |-> "False", sent |-> <<>>, sig |-> FALSE,
          o |-> StartObs(FALSE, 0, 0, FALSE, FALSE)]
    ELSE Launch(p, refused, sigAt, hello, rr)

\* ------------------------------------------------------------- the daemon

\* the tag the daemon logs under after it has received the commands cmds
RECURSIVE DaemonAfter(_, _)
DaemonAfter(tag, cmds) ==
    IF cmds = <<>> THEN tag
    ELSE LET c == Head(cmds) IN
         DaemonAfter(IF c[1] = "Go" THEN <<c[4], c[5]>>
                     ELSE IF c[1] = "Stop" THEN <<>>
                     ELSE tag,
                     Tail(cmds))

\* ------------------------------------------------------------ class Server

EmptyTable == [m \in {} |-> <<>>]

\* a log file left behind by an earlier run of the server
StaleLog == <<[v |-> "3.5", a |-> "1.2", mark |-> <<"ranging", "run1">>]>>

\* what a step did besides replying: whether it launched a daemon, the
\* connection attempts it made, the stop() calls it ran, whether one of them
\* terminated a process, the commands its last stop() sent, whether it sat
\* through the settle wait; and what it was given: the marker of the command
\* (arg), the refusals and the interrupt a launching start() met, the RR reply
\* it got (<<>>: RR was not sent); whether it read the log file
Obs(launched, attempts, stops, terminated, waited) ==
    [launched |-> launched, attempts |-> attempts, stops |-> stops,
     terminated |-> terminated, restore |-> <<>>, waited |-> waited,
     arg |-> "", refused |-> 0, sigAt |-> 0, rr |-> <<>>, readLog |-> FALSE]

NoObs == Obs(FALSE, 0, 0, FALSE, FALSE)

\* _set_range sending the current range before the voltage range
set_rangeAmpsFirst(p, volts_value, amps_value) ==
    Ptd_cmd(p, <<"SR", "A", amps_value>>) \o Ptd_cmd(p, <<"SR", "V", volts_value>>)

\* Server._set_range up to its settle wait: the commands sent
set_range(p, volts_value, amps_value) ==
    Ptd_cmd(p, <<"SR", "V", volts_value>>) \o Ptd_cmd(p, <<"SR", "A", amps_value>>)

\* the state after construction: Ptd.__init__, Server.__init__, and
\* lib.run_server waiting for a connection
Init ==
    /\ ptd = PtdInit
    /\ mode = None
    /\ mark = None
    /\ ranging_table = EmptyTable
    /\ last_log = [set |-> FALSE, lines |-> 0]
    /\ logExists \in BOOLEAN
    /\ logfile = (IF logExists THEN StaleLog ELSE <<>>)
    /\ daemonTag = <<>>
    /\ stopped = FALSE
    /\ pc = "listen"
    /\ op = "construct"
    /\ reply = "none"
    /\ sent = <<>>
    /\ obs = NoObs
    /\ hist = [helloOk |-> FALSE, captured |-> <<>>, ranged |-> {},
               lastLogHere |-> FALSE, phaseFrom |-> 0]

\* what a step of the command loop leaves as it was unless it says otherwise
Receiving == pc = "recv" /\ ~stopped

\* a reply to the client from a handler that touches nothing else
PlainReply(o, r) ==
    /\ Receiving
    /\ op' = o
    /\ reply' = r
    /\ sent' = <<>>
    /\ obs' = NoObs
    /\ UNCHANGED <<ptd, mode, mark, ranging_table, last_log, logExists, logfile,
                   daemonTag, stopped, pc, hist>>

\* handle_connection not clearing the ranging table
AcceptKeepsTable ==
    /\ pc = "listen"
    /\ ~stopped
    /\ mode' = None
    /\ mark' = None
    /\ logExists' = FALSE
    /\ logfile' = <<>>
    /\ pc' = "recv"
    /\ op' = "accept"
    /\ reply' = "none"
    /\ sent' = <<>>
    /\ obs' = NoObs
    /\ hist' = [hist EXCEPT !.ranged = {}, !.lastLogHere = FALSE, !.phaseFrom = 0]
    /\ UNCHANGED <<ptd, ranging_table, last_log, daemonTag, stopped>>

\* handle_connection not removing the daemon's log file
AcceptKeepsLog ==
    /\ pc = "listen"
    /\ ~stopped
    /\ ranging_table' = EmptyTable
    /\ mode' = None
    /\ mark' = None
    /\ pc' = "recv"
    /\ op' = "accept"
    /\ reply' = "none"
    /\ sent' = <<>>
    /\ obs' = NoObs
    /\ hist' = [hist EXCEPT !.ranged = {}, !.lastLogHere = FALSE, !.phaseFrom = 0]
    /\ UNCHANGED <<ptd, last_log, logExists, logfile, daemonTag, stopped>>

\* Server.handle_connection, up to the first receive: reset the session and
\* remove the daemon's log file
Accept ==
    /\ pc = "listen"
    /\ ~stopped
    /\ ranging_table' = EmptyTable
    /\ mode' = None
    /\ mark' = None
    /\ logExists' = FALSE
    /\ logfile' = <<>>
    /\ pc' = "recv"
    /\ op' = "accept"
    /\ reply' = "none"
    /\ sent' = <<>>
    /\ obs' = NoObs
    /\ hist' = [hist EXCEPT !.ranged = {}, !.lastLogHere = FALSE, !.phaseFrom = 0]
    /\ UNCHANGED <<ptd, last_log, daemonTag, stopped>>

\* the `finally: self._ptd.stop()` of handle_connection, after the handler
\* has left the supervisor p and sent the commands s
Finally(p, o, s, before, nextpc, sig) ==
    LET st == Ptd_stop(p) IN
    /\ ptd' = st.ptd
    /\ sent' = s \o st.sent
    /\ daemonTag' = <<>>
    /\ obs' = [before EXCEPT !.stops = @ + 1,
                             !.terminated = @ \/ st.terminated,
                             !.restore = st.sent]
    /\ op' = o
    /\ reply' = "none"
    /\ pc' = nextpc
    /\ stopped' = (stopped \/ sig)

\* p.recv() returns None: the client closed the connection
RecvEOF ==
    /\ Receiving
    /\ Finally(ptd, "eof", <<>>, NoObs, "listen", FALSE)
    /\ UNCHANGED <<mode, mark, ranging_table, last_log, logExists, logfile, hist>>

\* KeyboardInterrupt inside `with lib.sig: cmd = p.recv()`
RecvInterrupt ==
    /\ pc = "recv"
    /\ Finally(ptd, "interrupt", <<>>, NoObs, "closing", TRUE)
    /\ UNCHANGED <<mode, mark, ranging_table, last_log, logExists, logfile, hist>>

CmdHello == PlainReply("hello", "Hello from server!")

CmdTime == PlainReply("time", "time")

CmdUnknown == PlainReply("unknown", "Error: unknown command")

\* `init`: lib.ntp_sync, then Ptd.start; SystemExit leaves through the
\* finally clause and ends the server
CmdInit ==
    /\ Receiving
    /\ \E d \in Answers :
        LET r == Ptd_start(ptd, d.refused, d.sigAt, d.hello, d.rr)
            o == [Obs(r.o.launched, r.o.attempts, r.o.stops, r.o.terminated, FALSE)
                    EXCEPT !.refused = IF r.o.launched THEN d.refused ELSE 0,
                           !.sigAt = IF r.o.launched THEN d.sigAt ELSE 0,
                           !.rr = IF \E i \in DOMAIN r.sent : r.sent[i] = <<"RR">>
                                 THEN d.rr ELSE <<>>]
            h == IF r.o.launched
                 THEN [hist EXCEPT
                          !.helloOk = (r.ptd.proto /\ d.hello = "Hello, PTDaemon here!"),
                          !.captured = IF r.o.captured
                                       THEN <<r.ptd.init_Volts, r.ptd.init_Amps>>
                                       ELSE <<>>]
                 ELSE hist
        IN  /\ hist' = h
            /\ IF r.ret = "exit"
               THEN Finally(r.ptd, "init", r.sent, o, "closing", r.sig)
               ELSE /\ ptd' = r.ptd
                    /\ sent' = r.sent
                    /\ daemonTag' = DaemonAfter(daemonTag, r.sent)
                    /\ obs' = o
                    /\ op' = "init"
                    /\ reply' = (CASE r.ret = "True" -> "OK"
                                   [] r.ret = "False" -> "Error"
                                   [] OTHER -> "Error: exception")
                    /\ UNCHANGED <<pc, stopped>>
    /\ UNCHANGED <<mode, mark, ranging_table, last_log, logExists, logfile>>

\* a phase start that sets the mode and forgets the marker
StartPhaseNoMark(o, phase, m, volts_value, amps_value, intr) ==
    LET s == set_range(ptd, volts_value, amps_value) IN
    IF intr
    THEN /\ Finally(ptd, o, s, [NoObs EXCEPT !.arg = m], "listen", TRUE)
         /\ UNCHANGED <<mode, mark, ranging_table, last_log, logExists, logfile, hist>>
    ELSE LET all == s \o Ptd_cmd(ptd, <<"Go", "1000", "0", phase, m>>) IN
         /\ sent' = all
         /\ daemonTag' = DaemonAfter(daemonTag, all)
         /\ mode' = phase
         /\ op' = o
         /\ reply' = "OK"
         /\ obs' = [NoObs EXCEPT !.waited = TRUE, !.arg = m]
         /\ hist' = [hist EXCEPT !.phaseFrom = Len(logfile)]
         /\ UNCHANGED <<ptd, mark, ranging_table, last_log, logExists, logfile,
                        stopped, pc>>

\* the two measurement phases: _set_range, the settle wait (which an
\* interrupt ends: `except KeyboardInterrupt: break`), then Go
StartPhase(o, phase, m, volts_value, amps_value, intr) ==
    LET s == set_range(ptd, volts_value, amps_value) IN
    IF intr
    THEN /\ Finally(ptd, o, s, [NoObs EXCEPT !.arg = m], "listen", TRUE)
         /\ UNCHANGED <<mode, mark, ranging_table, last_log, logExists, logfile, hist>>
    ELSE LET all == s \o Ptd_cmd(ptd, <<"Go", "1000", "0", phase, m>>) IN
         /\ sent' = all
         /\ daemonTag' = DaemonAfter(daemonTag, all)
         /\ mode' = phase
         /\ mark' = m
         /\ op' = o
         /\ reply' = "OK"
         /\ obs' = [NoObs EXCEPT !.waited = TRUE, !.arg = m]
         /\ hist' = [hist EXCEPT !.phaseFrom = Len(logfile)]
         /\ UNCHANGED <<ptd, ranging_table, last_log, logExists, logfile, stopped,
                        pc>>

\* `start-ranging,<marker>`
CmdStartRanging ==
    /\ Receiving
    /\ \E m \in Markers, intr \in BOOLEAN :
        StartPhase("start-ranging", "ranging", m, "Auto", "Auto", intr)

\* `start-testing` whose KeyError is not caught by the command loop: it
\* leaves through the finally clause and ends the session
CmdStartTestingPropagates ==
    /\ Receiving
    /\ \E m \in Markers, intr \in BOOLEAN :
        IF m \notin DOMAIN ranging_table
        THEN /\ ~intr
             /\ Finally(ptd, "start-testing", <<>>, [NoObs EXCEPT !.arg = m],
                        "listen", FALSE)
             /\ UNCHANGED <<mode, mark, ranging_table, last_log, logExists,
                            logfile, hist>>
        ELSE StartPhase("start-testing", "testing", m,
                        ranging_table[m][1], ranging_table[m][2], intr)

\* `start-testing` that looks the marker up with a default of Auto ranges
CmdStartTestingDefault ==
    /\ Receiving
    /\ \E m \in Markers, intr \in BOOLEAN :
        IF m \notin DOMAIN ranging_table
        THEN StartPhase("start-testing", "testing", m, "Auto", "Auto", intr)
        ELSE StartPhase("start-testing", "testing", m,
                        ranging_table[m][1], ranging_table[m][2], intr)

\* `start-testing,<marker>`: the table lookup raises KeyError for a marker
\* that is not in it
CmdStartTesting ==
    /\ Receiving
    /\ \E m \in Markers, intr \in BOOLEAN :
        IF m \notin DOMAIN ranging_table
        THEN /\ ~intr
             /\ op' = "start-testing"
             /\ reply' = "Error: exception"
             /\ sent' = <<>>
             /\ obs' = [NoObs EXCEPT !.arg = m]
             /\ UNCHANGED <<ptd, mode, mark, ranging_table, last_log, logExists,
                            logfile, daemonTag, stopped, pc, hist>>
        ELSE StartPhase("start-testing", "testing", m,
                        ranging_table[m][1], ranging_table[m][2], intr)

\* `stop` reading the log without telling the daemon to stop
CmdStopNoCommand ==
    /\ Receiving
    /\ op' = "stop"
    /\ obs' = [NoObs EXCEPT !.readLog = (mark # None /\ logExists)]
    /\ UNCHANGED <<ptd, logExists, logfile, stopped, pc>>
    /\ IF mark = None
       THEN /\ reply' = "Error"
            /\ sent' = <<>>
            /\ UNCHANGED <<mode, mark, ranging_table, last_log, daemonTag, hist>>
       ELSE LET s == <<>>
                r == max_volts_amps(logExists, logfile, <<"ranging", mark>>)
            IN  /\ sent' = s
                /\ daemonTag' = DaemonAfter(daemonTag, s)
                /\ IF (mode = "ranging" /\ r.raised) \/ ~logExists
                   THEN /\ reply' = "Error: exception"
                        /\ UNCHANGED <<mode, mark, ranging_table, last_log, hist>>
                   ELSE /\ ranging_table' =
                              IF mode = "ranging"
                              THEN [k \in DOMAIN ranging_table \cup {mark} |->
                                      IF k = mark THEN r.item ELSE ranging_table[k]]
                              ELSE ranging_table
                        /\ last_log' = [set |-> TRUE, lines |-> Len(read_log(logfile, <<mode, mark>>))]
                        /\ mode' = None
                        /\ mark' = None
                        /\ reply' = "OK"
                        /\ hist' = [hist EXCEPT
                                      !.ranged = IF mode = "ranging"
                                                 THEN @ \cup {mark} ELSE @,
                                      !.lastLogHere = TRUE,
                                      !.phaseFrom = 0]

\* `stop`
CmdStop ==
    /\ Receiving
    /\ op' = "stop"
    /\ obs' = [NoObs EXCEPT !.readLog = (mark # None /\ logExists)]
    /\ UNCHANGED <<ptd, logExists, logfile, stopped, pc>>
    /\ IF mark = None
       THEN /\ reply' = "Error"
            /\ sent' = <<>>
            /\ UNCHANGED <<mode, mark, ranging_table, last_log, daemonTag, hist>>
       ELSE LET s == Ptd_cmd(ptd, <<"Stop">>)
                r == max_volts_amps(logExists, logfile, <<"ranging", mark>>)
            IN  /\ sent' = s
                /\ daemonTag' = DaemonAfter(daemonTag, s)
                /\ IF (mode = "ranging" /\ r.raised) \/ ~logExists
                   THEN /\ reply' = "Error: exception"
                        /\ UNCHANGED <<mode, mark, ranging_table, last_log, hist>>
                   ELSE /\ ranging_table' =
                              IF mode = "ranging"
                              THEN [k \in DOMAIN ranging_table \cup {mark} |->
                                      IF k = mark THEN r.item ELSE ranging_table[k]]
                              ELSE ranging_table
                        /\ last_log' = [set |-> TRUE, lines |-> Len(read_log(logfile, <<mode, mark>>))]
                        /\ mode' = None
                        /\ mark' = None
                        /\ reply' = "OK"
                        /\ hist' = [hist EXCEPT
                                      !.ranged = IF mode = "ranging"
                                                 THEN @ \cup {mark} ELSE @,
                                      !.lastLogHere = TRUE,
                                      !.phaseFrom = 0]

\* `get-last-log`: AttributeError while no `stop` has ever set _last_log
CmdGetLastLog ==
    PlainReply("get-last-log",
               IF ~last_log.set THEN "Error: exception" ELSE "base64")

\* `get-log`: FileNotFoundError while the log file does not exist
CmdGetLog ==
    PlainReply("get-log", IF logExists THEN "base64" ELSE "Error: exception")

\* `push-log,<label>`: lib.check_label decides; the transfer or the
\* extraction may fail
CmdPushLog ==
    \E r \in {"Error: invalid label", "OK", "Error: exception"} :
        PlainReply("push-log", r)

\* lib.run_server is interrupted while it waits for a connection
Shutdown ==
    /\ pc = "listen"
    /\ pc' = "closing"
    /\ stopped' = TRUE
    /\ op' = "shutdown"
    /\ reply' = "none"
    /\ sent' = <<>>
    /\ obs' = NoObs
    /\ UNCHANGED <<ptd, mode, mark, ranging_table, last_log, logExists, logfile,
                   daemonTag, hist>>

\* the `finally: server.close()` of the main program
Close ==
    /\ pc = "closing"
    /\ Finally(ptd, "close", <<>>, NoObs, "exited", FALSE)
    /\ UNCHANGED <<mode, mark, ranging_table, last_log, logExists, logfile, hist>>

\* the daemon appends a measurement to its log while a Go is in force
DaemonWrite ==
    /\ pc = "recv"
    /\ ptd.process
    /\ daemonTag # <<>>
    /\ Len(logfile) < MaxLog
    /\ \E x \in Samples(daemonTag) :
        logfile' = Append(logfile, [v |-> x[1], a |-> x[2], mark |-> daemonTag])
    /\ logExists' = TRUE
    /\ op' = "daemon"
    /\ reply' = "none"
    /\ sent' = <<>>
    /\ obs' = NoObs
    /\ UNCHANGED <<ptd, mode, mark, ranging_table, last_log, daemonTag, stopped,
                   pc, hist>>

Next ==
    \/ Accept
    \/ RecvEOF
    \/ RecvInterrupt
    \/ CmdHello
    \/ CmdTime
    \/ CmdInit
    \/ CmdStartRanging
    \/ CmdStartTesting
    \/ CmdStop
    \/ CmdGetLastLog
    \/ CmdGetLog
    \/ CmdPushLog
    \/ CmdUnknown
    \/ Shutdown
    \/ Close
    \/ DaemonWrite

Spec == Init /\ [][Next]_vars

\* ------------------------------------------------- the log analyzer alone

\* the Mark fields, the Volts and the Amps texts of the records of a log
LogMarks == {<<"ranging", "run1">>, <<"ranging", "Run1">>, <<"testing", "run1">>}
VoltTexts == {"-1", "0", "3.3", "3.5"}
AmpTexts == {"0", "1.0", "1.2"}

\* the lines RE_PTD_LOG matches, as the groups it captures
LogRecords == [v : VoltTexts, a : AmpTexts, mark : LogMarks]

\* the logs of at most MaxLog lines
Logs == UNION {[1..n -> LogRecords] : n \in 0..MaxLog}

\* a server in a ranging phase for a marker, over any log
InitMax ==
    /\ ptd = PtdInit
    /\ mode = "ranging"
    /\ mark \in {"run1", "Run1"}
    /\ ranging_table = EmptyTable
    /\ last_log = [set |-> FALSE, lines |-> 0]
    /\ logExists = TRUE
    /\ logfile \in Logs
    /\ daemonTag = <<>>
    /\ stopped = FALSE
    /\ pc = "call"
    /\ op = "construct"
    /\ reply = "none"
    /\ sent = <<>>
    /\ obs = NoObs
    /\ hist = [helloOk |-> FALSE, captured |-> <<>>, ranged |-> {},
               lastLogHere |-> FALSE, phaseFrom |-> 0]

\* the call max_volts_amps(log, f"{mode}-{mark}") as `stop` makes it: the
\* result is left in reply (returned or raised) and sent (the pair returned)
CallMaxVoltsAmps ==
    /\ pc = "call"
    /\ LET r == max_volts_amps(logExists, logfile, <<mode, mark>>) IN
        /\ reply' = (IF r.raised THEN "RuntimeError" ELSE "OK")
        /\ sent' = r.item
    /\ pc' = "returned"
    /\ op' = "max_volts_amps"
    /\ UNCHANGED <<ptd, mode, mark, ranging_table, last_log, logExists, logfile,
                   daemonTag, stopped, obs, hist>>

NextMax == CallMaxVoltsAmps

SpecMax == InitMax /\ [][NextMax]_vars

\* ------------------------------------------------------------------ claims

\* the supervisor holds no daemon process, no socket, no control connection
NotHolding(p) == ~p.process /\ ~p.socket /\ ~p.proto

\* the steps that are one iteration of the command loop of handle_connection
LoopOps ==
    {"eof", "interrupt", "hello", "time", "init", "start-ranging",
     "start-testing", "stop", "get-last-log", "get-log", "push-log", "unknown"}

\* the log holds records under tag with a positive voltage and a positive
\* current
PositiveUnder(tag) ==
    /\ \E i \in DOMAIN logfile : logfile[i].mark = tag /\ Decimal(logfile[i].v) > 0
    /\ \E i \in DOMAIN logfile : logfile[i].mark = tag /\ Decimal(logfile[i].a) > 0

\* C1: whenever handle_connection has ended (end of stream, interrupt in the
\* receive or in a command, process exit inside a command), stop() has run
\* and the supervisor holds no process, no socket and no control connection.
C1_StoppedWhenConnectionEnds ==
    pc # "recv" =>
        /\ NotHolding(ptd)
        /\ op \in {"construct", "shutdown"} \/ obs.stops >= 1

\* C1 witness: a session with a running daemon was ended by an interrupt in
\* the settle wait of start-ranging, and its daemon was terminated.
C1_Witness ==
    /\ pc = "listen"
    /\ op = "start-ranging"
    /\ obs.terminated
    /\ obs.restore # <<>>

\* C2: every stop() that finds a control connection sends exactly Stop,
\* SR,V,<v>, SR,A,<a> where <v>, <a> are the range the start() of this daemon
\* captured, on every path by which that start() ended.
C2_RestoresCapturedRange ==
    obs.restore # <<>> =>
        /\ hist.captured # <<>>
        /\ obs.restore = <<<<"Stop">>, <<"SR", "V", hist.captured[1]>>,
                           <<"SR", "A", hist.captured[2]>>>>

\* C3: mode = Testing with marker M implies that the ranging table holds an
\* entry for M stored by a `stop` handled in Ranging mode for M in the same
\* connection.
C3_TestingWasRangedHere ==
    mode = "testing" => (mark \in DOMAIN ranging_table /\ mark \in hist.ranged)

\* C3 witness: a session is in Testing mode.
C3_Witness == pc = "recv" /\ mode = "testing" /\ op = "start-testing"

\* C4 as claimed: every command gets a reply before the next is received, and
\* the loop ends only by end of stream or by an external interrupt, without a
\* reply.
C4_EndsOnlyByEofOrInterrupt ==
    op \in LoopOps =>
        IF pc = "recv" THEN reply # "none"
        ELSE reply = "none" /\ (op = "eof" \/ stopped)

\* C4 as amended: every command gets a reply before the next is received, an
\* internal fault gets the generic error reply and the session continues, and
\* the loop ends only by end of stream, by an external interrupt or by the
\* process exit of `init` on an empty RR reply, each without a reply.
C4_OneReplyOrEnd ==
    op \in LoopOps =>
        /\ reply = "Error: exception" => pc = "recv"
        /\ IF pc = "recv" THEN reply # "none"
           ELSE /\ reply = "none"
                /\ \/ op = "eof"
                   \/ stopped
                   \/ op = "init" /\ \E i \in DOMAIN sent : sent[i] = <<"RR">>

\* C4 witness: start-testing raised KeyError, got the generic error reply and
\* the session goes on.
C4_Witness ==
    pc = "recv" /\ op = "start-testing" /\ reply = "Error: exception"

\* C5: a start() called while the supervisor is Ready (the start() that
\* launched the daemon succeeded, no stop() since) returns success, so the
\* second `init` replies OK.
C5_SecondInitSucceeds ==
    (op = "init" /\ ~obs.launched /\ hist.captured # <<>>) => reply = "OK"

\* C6: a start() called while a process is held launches nothing, makes no
\* connection attempt, sends nothing and leaves the supervisor as it was.
C6_StartWhileHeldIsInert ==
    [][(op' = "init" /\ ptd.process) =>
          /\ ptd' = ptd
          /\ sent' = <<>>
          /\ ~obs'.launched
          /\ obs'.attempts = 0
          /\ obs'.stops = 0
          /\ hist'.captured = hist.captured]_vars

\* C6 witness: an `init` found a process held.
C6_Witness == op = "init" /\ ~obs.launched /\ ptd.process /\ ptd.proto

\* C7: stop() on a supervisor that holds nothing sends nothing, terminates
\* nothing and leaves the supervisor as it was.
C7_StopWhenNotStartedIsNoOp ==
    [][(op' \in {"eof", "interrupt", "close"} /\ NotHolding(ptd)) =>
          /\ ptd' = ptd
          /\ sent' = <<>>
          /\ obs'.restore = <<>>
          /\ ~obs'.terminated]_vars

\* C7 witness: Server.close() ran stop() on a supervisor that an earlier
\* stop() had already stopped after a successful start().
C7_Witness ==
    /\ op = "close"
    /\ obs.stops = 1
    /\ ~obs.terminated
    /\ ptd.init_Volts # None

\* C8: wherever the session waits for a command, mode is Idle exactly when
\* there is no active marker.
C8_ModeMarkConsistent ==
    pc = "recv" =>
        /\ mode \in {None, "ranging", "testing"}
        /\ (mode = None) <=> (mark = None)
        /\ mark # None => mark \in Markers

\* C8 witness: a `stop` in Ranging mode ended in the generic error reply and
\* the session waits for the next command.
C8_Witness ==
    /\ pc = "recv"
    /\ op = "stop"
    /\ reply = "Error: exception"
    /\ mode = "ranging"

\* C9: before the first command of a connection mode is Idle, no marker is
\* active, the ranging table is empty, the log file does not exist and no
\* daemon is there to write it; later the table holds only markers ranged in
\* this connection.
C9_FreshSession ==
    /\ op = "accept" =>
          /\ mode = None
          /\ mark = None
          /\ ranging_table = EmptyTable
          /\ ~logExists
          /\ logfile = <<>>
          /\ NotHolding(ptd)
          /\ daemonTag = <<>>
    /\ pc = "recv" => DOMAIN ranging_table = hist.ranged

\* C9 witness: a connection starts after one that logged and stopped a phase.
C9_Witness == op = "accept" /\ last_log.set /\ last_log.lines > 0

\* C10 as claimed: a `stop` with an active marker ends Idle with the reply
\* OK whatever the mode and the log; without one it replies Error.
C10_StopAlwaysEndsIdle ==
    op = "stop" => (reply \in {"OK", "Error"} /\ mode = None /\ mark = None)

\* C10 as amended: a `stop` without an active marker replies Error, sends
\* nothing and changes no state; with one it ends Idle with the reply OK when
\* the mode is Testing, or is Ranging and the log holds records of this phase's
\* tag with a positive voltage and a positive current; otherwise it replies
\* with the generic error reply and keeps mode, marker and table.
C10_StopOutcome ==
    [][op' = "stop" =>
          IF mark = None
          THEN /\ reply' = "Error"
               /\ sent' = <<>>
               /\ UNCHANGED <<ptd, mode, mark, ranging_table, last_log, logExists,
                              logfile, daemonTag>>
          ELSE IF mode = "testing" \/ PositiveUnder(<<"ranging", mark>>)
          THEN reply' = "OK" /\ mode' = None /\ mark' = None
          ELSE /\ reply' = "Error: exception"
               /\ UNCHANGED <<mode, mark, ranging_table, last_log>>]_vars

\* C10 witness: a `stop` in Ranging mode with a connected daemon that logged
\* nothing got the generic error reply.
C10_Witness ==
    /\ op = "stop"
    /\ reply = "Error: exception"
    /\ mode = "ranging"
    /\ sent = <<<<"Stop">>>>

\* the lines of the log written since the current phase began that carry tag
PhaseLines(tag) ==
    {i \in (hist.phaseFrom + 1)..Len(logfile) : logfile[i].mark = tag}

\* C11: a `stop` in the ranging mode for marker M that replies OK stores for M
\* the maximum voltage and the maximum current over exactly the records
\* tagged ranging-M that were written since the preceding start-ranging,M
C11_MaxOverPhaseJustEnded ==
    [][(op' = "stop" /\ mode = "ranging" /\ mode' = None /\ reply' = "OK")
       => LET ix == PhaseLines(<<"ranging", mark>>)
              e == ranging_table'[mark]
          IN  /\ ix # {}
              /\ \E i \in ix : Decimal(logfile[i].v) = Decimal(e[1])
              /\ \E i \in ix : Decimal(logfile[i].a) = Decimal(e[2])
              /\ \A i \in ix : /\ Decimal(logfile[i].v) <= Decimal(e[1])
                               /\ Decimal(logfile[i].a) <= Decimal(e[2])]_vars

\* C12: a `start-testing,M` for a marker M with no entry in the ranging table
\* replies the generic internal error, sends the daemon nothing, does not
\* wait for the range to settle, leaves the mode, the marker, the table and
\* the supervisor as they were, and the session goes on
C12_MissingEntryIsInert ==
    [][(op' = "start-testing" /\ pc = "recv" /\ obs'.arg \in Markers
        /\ obs'.arg \notin DOMAIN ranging_table)
       => /\ reply' = "Error: exception"
          /\ sent' = <<>>
          /\ ~obs'.waited
          /\ obs'.stops = 0
          /\ pc' = "recv"
          /\ UNCHANGED <<mode, mark, ranging_table, ptd, daemonTag>>]_vars

C12_Witness ==
    /\ op = "start-testing"
    /\ reply = "Error: exception"
    /\ obs.arg \notin DOMAIN ranging_table
    /\ DOMAIN ranging_table # {}
    /\ mode = "ranging"
    /\ ptd.proto

\* C13: a start() that launches the daemon and finds every connection attempt
\* refused ends after exactly `retries` attempts when no interrupt is seen: it
\* has run stop() once, terminated the process, holds nothing, and `init`
\* replies "Error"; when an interrupt is seen after a refused attempt the
\* process exits at that attempt and `init` sends no reply
C13_RefusedStartGivesUp ==
    (op = "init" /\ obs.launched /\ obs.refused >= retries)
    => IF obs.sigAt = 0
       THEN /\ obs.attempts = retries
            /\ obs.stops = 1
            /\ obs.terminated
            /\ NotHolding(ptd)
            /\ sent = <<>>
            /\ reply = "Error"
            /\ pc = "recv"
       ELSE /\ obs.attempts = obs.sigAt
            /\ reply = "none"
            /\ stopped
            /\ pc = "closing"

C13_Witness ==
    /\ op = "init"
    /\ obs.launched
    /\ obs.refused = retries
    /\ obs.sigAt = 0
    /\ obs.attempts = retries
    /\ reply = "Error"

\* the range the claim expects from the RR reply rr for the flag at offset k
ExpectedRange(rr, k) ==
    IF /\ Len(rr) >= k + 2
       /\ rr[k + 1] = "0"
       /\ IsFloat(rr[k + 2])
       /\ Float(rr[k + 2]) > 0
    THEN rr[k + 2]
    ELSE "Auto"

\* C14: for every non-empty RR reply after a successful handshake, start()
\* succeeds (`init` replies OK) with both initial ranges captured: the literal
\* value where the flag is "0" and the value parses as a positive number,
\* "Auto" otherwise, a reply that cannot be parsed included
C14_EveryReplyCaptured ==
    (op = "init" /\ obs.rr \notin {<<>>, <<"">>})
    => /\ reply = "OK"
       /\ ptd.init_Amps = ExpectedRange(obs.rr, 1)
       /\ ptd.init_Volts = ExpectedRange(obs.rr, 3)

\* C15: max_volts_amps returns the maximum voltage and the maximum current
\* over exactly the lines whose mark equals the marker when there is such a
\* line and both maxima are positive, and raises otherwise; it never returns
\* the -1 it starts from
C15_TrueMaxima ==
    pc = "returned"
    => LET ix == {i \in DOMAIN logfile : logfile[i].mark = <<mode, mark>>}
           found == /\ \E i \in ix : Decimal(logfile[i].v) > 0
                    /\ \E i \in ix : Decimal(logfile[i].a) > 0
       IN  IF found
           THEN /\ reply = "OK"
                /\ \E i \in ix : logfile[i].v = sent[1]
                /\ \E i \in ix : logfile[i].a = sent[2]
                /\ \A i \in ix : /\ Decimal(logfile[i].v) <= Decimal(sent[1])
                                 /\ Decimal(logfile[i].a) <= Decimal(sent[2])
                /\ Decimal(sent[1]) > 0
                /\ Decimal(sent[2]) > 0
           ELSE reply = "RuntimeError" /\ sent = <<>>

C15_Witness ==
    /\ pc = "returned"
    /\ reply = "OK"
    /\ \E i \in DOMAIN logfile :
          /\ logfile[i].mark # <<mode, mark>>
          /\ Decimal(logfile[i].v) > Decimal(sent[1])

\* C16: a `stop` that reads the daemon's log file has sent Stop to the daemon
\* in that same handling, and the daemon is not logging when the file is read
C16_LogReadAfterStop ==
    (op = "stop" /\ obs.readLog)
    => /\ sent = <<<<"Stop">>>>
       /\ daemonTag = <<>>

C16_Witness ==
    /\ op = "stop"
    /\ obs.readLog
    /\ reply = "OK"
    /\ last_log.lines > 0

\* C17: a `start-testing,M` that replies OK has sent SR,V,<maxVolts>, then
\* SR,A,<maxAmps>, then, after the settle wait, Go,1000,0,testing-M, where
\* (maxVolts, maxAmps) is the entry of the ranging table for M; the mode is
\* "testing" and the marker M only with the Go sent
C17_TestingCommandsInOrder ==
    /\ (op = "start-testing" /\ reply = "OK")
       => /\ obs.arg \in DOMAIN ranging_table
          /\ sent = << <<"SR", "V", ranging_table[obs.arg][1]>>,
                       <<"SR", "A", ranging_table[obs.arg][2]>>,
                       <<"Go", "1000", "0", "testing", obs.arg>> >>
          /\ obs.waited
          /\ mode = "testing"
          /\ mark = obs.arg
    /\ (op = "start-testing" /\ reply # "OK")
       => \A i \in DOMAIN sent : sent[i][1] # "Go"

C17_Witness ==
    /\ op = "start-testing"
    /\ reply = "OK"
    /\ Len(sent) = 3
    /\ sent[1] = <<"SR", "V", "3.5">>
    /\ sent[2] = <<"SR", "A", "1.2">>

\* C18: while the command loop runs, a control connection the supervisor
\* holds is one on which Hello was answered as PTDaemon answers it, and the
\* session commands send SR, Go and Stop only over such a connection
C18_HeldConnectionShookHands ==
    /\ (pc = "recv" /\ ptd.proto) => hist.helloOk
    /\ (op \in {"start-ranging", "start-testing", "stop"} /\ sent # <<>>)
       => hist.helloOk

\* C19: a `get-last-log` in a connection in which no `stop` has replied OK
\* yet replies an error or an empty text, never the text of an earlier
\* connection
C19_LastLogOfThisConnection ==
    (op = "get-last-log" /\ ~hist.lastLogHere)
    => \/ reply = "Error: exception"
       \/ last_log.lines = 0

\* C20: a Go is sent only to a daemon that is not measuring: a Stop lies
\* between any two Go commands of a connection
C20_GoOnlyWhenIdle ==
    [][(\E i \in DOMAIN sent' : sent'[i][1] = "Go") => daemonTag = <<>>]_vars

====
